---- MODULE Spec2Model ----
(***************************************************************************)
(* Model of high-dim-pde/fbsde_raissi_eqx.py: the FBSDE single-step        *)
(* transition (FBSDEStep.__call__), the trajectory simulator               *)
(* (NeuralFBSDE.__call__, a lax.scan of the step), the batched training    *)
(* step (train_step, a vmap of the simulator followed by one optimizer     *)
(* update) and the training loop (train).                                  *)
(*                                                                         *)
(* Reals are fixed-point integers with Scale units per 1.0 and a finite    *)
(* range; every result outside the range, and every operation on a         *)
(* non-finite operand, is the single non-finite value NaN.  PRNG keys are  *)
(* paths in the split tree: PRNGKey(0) is the empty path and split(k)      *)
(* yields k.0 and k.1.                                                     *)
(***************************************************************************)
EXTENDS Integers, Sequences, FiniteSets, TLC

VARIABLES pc, it, rng, model, opt_state, loss, hist, args, call, lanes

vars == <<pc, it, rng, model, opt_state, loss, hist, args, call, lanes>>

-----------------------------------------------------------------------------
(* Bounds of the model *)

\* fixed-point units per 1.0
Scale == 100
\* largest finite magnitude (in fixed-point units)
MaxFloat == 30000
\* largest num_timesteps explored
MaxSteps == 2
\* largest num_iters explored
MaxIters == 2
\* largest batch_size explored
MaxBatch == 2

-----------------------------------------------------------------------------
(* Floating point *)

NaN == MaxFloat + 1

IsFinite(a) == a # NaN

Norm(v) == IF v > MaxFloat \/ v < -MaxFloat THEN NaN ELSE v

FAdd(a, b) == IF a = NaN \/ b = NaN THEN NaN ELSE Norm(a + b)

FSub(a, b) == IF a = NaN \/ b = NaN THEN NaN ELSE Norm(a - b)

FMul(a, b) == IF a = NaN \/ b = NaN THEN NaN ELSE Norm((a * b) \div Scale)

\* an integer (a step index) as a float
FInt(n) == Norm(n * Scale)

\* largest r in lo..hi with r*r <= n, by bisection (lo*lo <= n < (hi+1)*(hi+1))
RECURSIVE ISqrtIn(_, _, _)
ISqrtIn(n, lo, hi) ==
  IF lo >= hi THEN lo
  ELSE LET mid == (lo + hi + 1) \div 2
       IN IF mid * mid <= n THEN ISqrtIn(n, mid, hi) ELSE ISqrtIn(n, lo, mid - 1)

\* largest r with r*r <= n, for 0 <= n <= MaxFloat * Scale (r <= MaxFloat)
ISqrt(n) == ISqrtIn(n, 0, MaxFloat)

\* jnp.sqrt: NaN on a negative operand
FSqrt(a) == IF a = NaN \/ a < 0 THEN NaN ELSE ISqrt(a * Scale)

\* a vector given by its components, as a tuple
Vec(f) == f \o <<>>

\* jnp.sum of a vector
RECURSIVE FSum(_)
FSum(v) == IF v = <<>> THEN 0 ELSE FAdd(Head(v), FSum(Tail(v)))

\* elementwise binary operation with numpy broadcasting of a length-1 operand
\* (the operands met here have equal lengths or one of length 1; other
\* lengths are a shape error in numpy)
BLen(a, b) == IF Len(a) >= Len(b) THEN Len(a) ELSE Len(b)

BAt(a, j) == IF Len(a) = 1 THEN a[1] ELSE a[j]

VMul(a, b) == Vec([j \in 1..BLen(a, b) |-> FMul(BAt(a, j), BAt(b, j))])

VAdd(a, b) == Vec([j \in 1..BLen(a, b) |-> FAdd(BAt(a, j), BAt(b, j))])

\* vector times scalar
VScale(a, s) == Vec([j \in 1..Len(a) |-> FMul(a[j], s)])

-----------------------------------------------------------------------------
(* Random keys *)

PRNGKey0 == <<>>

\* jrandom.split(key): two keys derived from key
Split(key) == <<Append(key, 0), Append(key, 1)>>

\* the key's bits as a number (distinct for distinct keys)
RECURSIVE KeyBits(_)
KeyBits(key) ==
  IF key = <<>> THEN 0
  ELSE 2 * KeyBits(SubSeq(key, 1, Len(key) - 1)) + key[Len(key)] + 1

NormalTable == <<-150, -50, 0, 50, 150>>

\* jrandom.normal(key, (n, )): n standard-normal samples fixed by the key
Normal(key, n) ==
  Vec([j \in 1..n |-> NormalTable[((3 * KeyBits(key) + j) % 5) + 1]])

-----------------------------------------------------------------------------
(* The value-and-gradient oracle.  The MLP is a black box of the model     *)
(* parameters; it is modelled by the affine map w * sum(input) + b, whose  *)
(* gradient in x is w in every component.                                  *)

Mlp(unet, inp) == FAdd(FMul(unet.w, FSum(inp)), unet.b)

\* FNN.__call__(t, x): (y, dudx) from one forward evaluation on concat [t, x]
\* and its vjp in x
FNN(unet, t, x) ==
  [y |-> Mlp(unet, <<t>> \o x),
   dudx |-> Vec([j \in 1..Len(x) |-> FMul(unet.w, FInt(1))])]

\* FBSDEStep.u_and_dudx
u_and_dudx(unet, t, x) == FNN(unet, t, x)

(* The SDE coefficients set in FBSDEStep.__init__ *)

\* 0.4 and 0.05 in fixed point
SigmaCoef == (4 * Scale) \div 10

PhiCoef == (5 * Scale) \div 100

mu_fn(t, X, Y, Z) == Vec([j \in 1..Len(X) |-> 0])

sigma_fn(t, X, Y) == VScale(X, SigmaCoef)

phi_fn(t, X, Y, Z) == FMul(PhiCoef, FSub(Y, FSum(VMul(X, Z))))

-----------------------------------------------------------------------------
(* FBSDEStep.__call__(carry, inp): one transition.  Besides the new carry  *)
(* and the outputs the result records the key the Gaussian draw consumed   *)
(* and the argument of the oracle call the transition made.                *)

\* the number of Gaussian draws made so far by all running calls
DrawsSoFar ==
  IF Len(lanes) >= 2 THEN Len(lanes[1].draws) + Len(lanes[2].draws) ELSE 0

\* a step whose keys come from a generator shared by all calls, not from
\* its carry
StepKeysGlobal(key) == Split(<<DrawsSoFar>>)

\* key, key2 = jrandom.split(key)
StepKeys(key) == Split(key)

StepCurrT(c) == FAdd(c.t0, FMul(FInt(c.i), c.dt))

StepNextT(c) == FAdd(c.t0, FMul(FInt(c.i + 1), c.dt))

\* a step that carries the index on without the increment
StepNextIndexSame(c) == c.i

\* the step index of the new carry
StepNextIndex(c) == c.i + 1

FBSDEStep(unet, noise_size, c) ==
  LET keys == StepKeys(c.key)
      key == keys[1]
      key2 == keys[2]
      curr_t == StepCurrT(c)
      next_t == StepNextT(c)
      dW == VScale(Normal(key, noise_size), FSqrt(c.dt))
      sigma == sigma_fn(curr_t, c.x, c.y)
      sdW == VMul(sigma, dW)
      x1 == VAdd(VAdd(c.x, VScale(mu_fn(curr_t, c.x, c.y, c.z), c.dt)), sdW)
      y1_tilde == FAdd(FAdd(c.y, FMul(phi_fn(curr_t, c.x, c.y, c.z), c.dt)),
                       FSum(VMul(VMul(c.z, sigma), dW)))
      o == FNN(unet, next_t, x1)
  IN [carry |-> [i |-> StepNextIndex(c), t0 |-> c.t0, dt |-> c.dt, x |-> x1,
                 y |-> o.y, z |-> o.dudx, key |-> key2],
      out |-> [x |-> x1, y_tilde |-> y1_tilde, y |-> o.y],
      drew |-> key,
      oracle |-> [t |-> next_t, x |-> x1, y |-> o.y, z |-> o.dudx]]

-----------------------------------------------------------------------------
(* NeuralFBSDE.__call__(x0, t0, dt, num_timesteps, unroll, key)            *)

\* the time of the initial oracle evaluation: jnp.zeros((1, ))
InitialOracleT(t0) == 0

\* lines 150-152: the initial oracle evaluation and the initial carry
InitialCarry(unet, x0, t0, dt, key) ==
  LET o == u_and_dudx(unet, InitialOracleT(t0), x0)
  IN [i |-> 0, t0 |-> t0, dt |-> dt, x |-> x0, y |-> o.y, z |-> o.dudx,
      key |-> key]

InitialOracle(unet, x0, t0) ==
  LET o == u_and_dudx(unet, InitialOracleT(t0), x0)
  IN [t |-> InitialOracleT(t0), x |-> x0, y |-> o.y, z |-> o.dudx]

\* jax.lax.scan(step_fn, carry, None, length): the step applied length times,
\* the outputs stacked in order
RECURSIVE Scan(_, _, _, _)
Scan(unet, noise_size, carry, length) ==
  IF length <= 0 THEN [carry |-> carry, ys |-> <<>>]
  ELSE LET s == FBSDEStep(unet, noise_size, carry)
           r == Scan(unet, noise_size, s.carry, length - 1)
       IN [carry |-> r.carry, ys |-> <<s.out>> \o r.ys]

\* the whole call as a function of its arguments
NeuralFBSDE(unet, noise_size, x0, t0, dt, num_timesteps, key) ==
  Scan(unet, noise_size, InitialCarry(unet, x0, t0, dt, key), num_timesteps)

-----------------------------------------------------------------------------
(* One running call of NeuralFBSDE.__call__ (a lane): where it is, the     *)
(* carries it has held so far (the last one is the scan's current carry),  *)
(* the stacked outputs, the oracle calls made and the keys the Gaussian    *)
(* draws consumed.                                                         *)

EntryLane == [stage |-> "entry", trace |-> <<>>, ys |-> <<>>, calls |-> <<>>,
              draws |-> <<>>]

Last(q) == q[Len(q)]

\* lines 150-152
LaneEnter(unet, x0, t0, dt, key) ==
  [stage |-> "scan",
   trace |-> <<InitialCarry(unet, x0, t0, dt, key)>>,
   ys |-> <<>>,
   calls |-> <<InitialOracle(unet, x0, t0)>>,
   draws |-> <<>>]

\* one iteration of the scan of line 157
LaneStep(unet, noise_size, lane) ==
  LET s == FBSDEStep(unet, noise_size, Last(lane.trace))
  IN [stage |-> "scan",
      trace |-> Append(lane.trace, s.carry),
      ys |-> Append(lane.ys, s.out),
      calls |-> Append(lane.calls, s.oracle),
      draws |-> Append(lane.draws, s.drew)]

\* the scan has run `length` iterations
ScanFinished(lane, length) == Len(lane.ys) >= length

\* line 158: return (carry, output)
LaneReturn(lane) == [lane EXCEPT !.stage = "returned"]

Returned(lane) == [carry |-> Last(lane.trace), ys |-> lane.ys]

-----------------------------------------------------------------------------
(* The trajectory simulator called directly: two calls of                  *)
(* NeuralFBSDE.__call__ with the same arguments and the same model, each   *)
(* advancing on its own.                                                   *)

\* x0 as train builds it (line 221) for dim = 2, and a second state
X0Values == {<<Scale, Scale \div 2>>, <<2 * Scale, 0>>}

T0Values == {0, Scale}

DtValues == {-(Scale \div 5), 0, Scale \div 5}

UnetValues == {[w |-> Scale, b |-> 0], [w |-> 20 * Scale, b |-> Scale \div 2]}

NoiseValues == {1, 2}

KeyValues == {PRNGKey0, <<0>>}

NoOptState == [count |-> 0, mu |-> [w |-> 0, b |-> 0]]

SimCalls ==
  [unet : UnetValues, noise_size : NoiseValues, x0 : X0Values, t0 : T0Values,
   dt : DtValues, num_timesteps : 0..MaxSteps, key : KeyValues]

SimInit ==
  /\ pc = "api"
  /\ it = 0
  /\ rng = PRNGKey0
  /\ call \in SimCalls
  /\ model = [unet |-> call.unet, noise_size |-> call.noise_size]
  /\ opt_state = NoOptState
  /\ loss = <<>>
  /\ hist = <<>>
  /\ args = [batch_size |-> 2, dt |-> call.dt,
             num_timesteps |-> call.num_timesteps, num_iters |-> 0]
  /\ lanes = <<EntryLane, EntryLane>>

trainVars == <<pc, it, rng, model, opt_state, loss, hist, args>>

SimEnter(m) ==
  /\ pc = "api"
  /\ lanes[m].stage = "entry"
  /\ lanes' = [lanes EXCEPT
                 ![m] = LaneEnter(model.unet, call.x0, call.t0, call.dt, call.key)]
  /\ UNCHANGED <<trainVars, call>>

SimStep(m) ==
  /\ pc = "api"
  /\ lanes[m].stage = "scan"
  /\ ~ScanFinished(lanes[m], call.num_timesteps)
  /\ lanes' = [lanes EXCEPT ![m] = LaneStep(model.unet, model.noise_size, lanes[m])]
  /\ UNCHANGED <<trainVars, call>>

SimReturn(m) ==
  /\ pc = "api"
  /\ lanes[m].stage = "scan"
  /\ ScanFinished(lanes[m], call.num_timesteps)
  /\ lanes' = [lanes EXCEPT ![m] = LaneReturn(lanes[m])]
  /\ UNCHANGED <<trainVars, call>>

SimNext == \E m \in 1..2 : SimEnter(m) \/ SimStep(m) \/ SimReturn(m)

SimSpec == SimInit /\ [][SimNext]_vars

-----------------------------------------------------------------------------
(* Loss (train_step.loss_fn) *)

FSq(a) == FMul(a, a)

\* sum_square_error of two scalars
SqErr(y, y_pred) == FSq(FSub(y, y_pred))

\* sum_square_error of two vectors
SqErrV(y, y_pred) == FSum(Vec([j \in 1..Len(y) |-> SqErr(y[j], y_pred[j])]))

g_fn(X) == FSum(Vec([j \in 1..Len(X) |-> FSq(X[j])]))

dg_fn(X) == Vec([j \in 1..Len(X) |-> FMul(FInt(2), X[j])])

\* lines 194-199 for one batch member's (out_carry, out_val)
MemberLoss(run) ==
  FAdd(FAdd(FSum(Vec([k \in 1..Len(run.ys) |-> SqErr(run.ys[k].y_tilde, run.ys[k].y)])),
            SqErr(run.carry.y, g_fn(run.carry.x))),
       SqErrV(run.carry.z, dg_fn(run.carry.x)))

\* the sums run over the batch axis too
LossOfRuns(runs) == FSum(Vec([m \in 1..Len(runs) |-> MemberLoss(runs[m])]))

\* jax.vmap(model, in_axes=(0, None, None, None, None, None)): the key given to
\* batch member m
VmapKey(key, m) == key

\* the vmapped model call of line 192
BatchRuns(mdl, c) ==
  Vec([m \in 1..Len(c.x0) |->
         NeuralFBSDE(mdl.unet, mdl.noise_size, c.x0[m], c.t0, c.dt,
                     c.num_timesteps, VmapKey(c.key, m))])

\* loss_fn(model)
loss_fn(mdl, c) == LossOfRuns(BatchRuns(mdl, c))

\* d loss / d parameter, by a central difference of one fixed-point unit
Diff(lp, lm) == IF lp = NaN \/ lm = NaN THEN NaN ELSE Norm(((lp - lm) * Scale) \div 2)

Shift(a, d) == IF a = NaN THEN NaN ELSE Norm(a + d)

\* eqx.filter_value_and_grad(loss_fn)(model): the gradient in the parameters
Grads(mdl, c) ==
  [w |-> Diff(loss_fn([mdl EXCEPT !.unet.w = Shift(@, 1)], c),
              loss_fn([mdl EXCEPT !.unet.w = Shift(@, -1)], c)),
   b |-> Diff(loss_fn([mdl EXCEPT !.unet.b = Shift(@, 1)], c),
              loss_fn([mdl EXCEPT !.unet.b = Shift(@, -1)], c))]

-----------------------------------------------------------------------------
(* The optimizer (optax.adam), by its interface: a step count and a first  *)
(* moment per parameter; the update moves each parameter by the learning   *)
(* rate against the sign of its moment.                                    *)

\* learning_rate = 1e-3, as the smallest fixed-point step
LearningRate == 1

Params == {"w", "b"}

\* optimizer.init
OptInit == [count |-> 0, mu |-> [f \in Params |-> 0]]

Moment(mu, g) == FAdd(FMul((9 * Scale) \div 10, mu), FMul(Scale \div 10, g))

Sign(a) == IF a = NaN THEN NaN ELSE IF a > 0 THEN 1 ELSE IF a < 0 THEN -1 ELSE 0

\* optimizer.update(grads, opt_state)
OptUpdate(grads, s) ==
  LET mu == [f \in Params |-> Moment(s.mu[f], grads[f])]
  IN [updates |-> [f \in Params |->
                     IF mu[f] = NaN \/ grads[f] = NaN THEN NaN
                     ELSE -(LearningRate * Sign(grads[f]))],
      opt_state |-> [count |-> s.count + 1, mu |-> mu]]

\* eqx.apply_updates(model, updates)
ApplyUpdates(mdl, updates) ==
  [mdl EXCEPT !.unet = [f \in Params |-> FAdd(mdl.unet[f], updates[f])]]

\* the optimizer state train_step returns
ReturnedOptState(upd) == upd.opt_state

\* a train_step that returns the model without the update
ReturnedModelStale(mdl, upd) == mdl

\* the model train_step returns
ReturnedModel(mdl, upd) == ApplyUpdates(mdl, upd.updates)

\* train_step, from the finished simulation on: lines 194-209
TrainStepResult(c, runs) ==
  LET upd == OptUpdate(Grads(c.model, c), c.opt_state)
  IN [loss |-> LossOfRuns(runs),
      model |-> ReturnedModel(c.model, upd),
      opt_state |-> ReturnedOptState(upd),
      y |-> [m \in 1..Len(runs) |-> [k \in 1..Len(runs[m].ys) |-> runs[m].ys[k].y]]]

-----------------------------------------------------------------------------
(* train(args) *)

\* lines 221-222: x0 broadcast over the batch (dim = 2)
BatchX0(batch_size) == [m \in 1..batch_size |-> <<Scale, Scale \div 2>>]

ArgsValues ==
  [batch_size : 1..MaxBatch, dt : {Scale \div 5, Scale \div 2},
   num_timesteps : 1..MaxSteps, num_iters : 1..MaxIters]

\* train before its loop: call holds the arguments of the train_step call in
\* progress and is a placeholder until the first call
TrainInit ==
  /\ pc = "loop"
  /\ it = 0
  /\ rng = PRNGKey0
  /\ args \in ArgsValues
  /\ \E u \in UnetValues : model = [unet |-> u, noise_size |-> 2]
  /\ opt_state = OptInit
  /\ loss = <<>>
  /\ hist = <<>>
  /\ call = [model |-> model, x0 |-> BatchX0(args.batch_size), t0 |-> 0,
             dt |-> args.dt, num_timesteps |-> args.num_timesteps,
             opt_state |-> opt_state, key |-> rng]
  /\ lanes = <<>>

\* the key train passes to train_step: rng, _ = jax.random.split(rng)
NextRng(key) == Split(key)[1]

\* the optimizer state train passes to the next train_step: the assignment
\* `loss, model, loss, y_pred = train_step(...)` binds the returned optimizer
\* state to `loss`, and opt_state keeps its value
KeptOptState(old, ret) == old

\* lines 229-233 up to the call, and the call up to the scan: every batch
\* member's initial oracle evaluation and carry
TrainCall ==
  /\ pc = "loop"
  /\ it < args.num_iters
  /\ rng' = NextRng(rng)
  /\ call' = [model |-> model, x0 |-> BatchX0(args.batch_size), t0 |-> 0,
              dt |-> args.dt, num_timesteps |-> args.num_timesteps,
              opt_state |-> opt_state, key |-> rng']
  /\ lanes' = [m \in 1..args.batch_size |->
                 LaneEnter(model.unet, call'.x0[m], call'.t0, call'.dt,
                           VmapKey(call'.key, m))]
  /\ pc' = "scan"
  /\ UNCHANGED <<it, model, opt_state, loss, hist, args>>

\* one iteration of the batched scan
BatchStep ==
  /\ pc = "scan"
  /\ ~ScanFinished(lanes[1], call.num_timesteps)
  /\ lanes' = [m \in 1..Len(lanes) |->
                 LaneStep(call.model.unet, call.model.noise_size, lanes[m])]
  /\ UNCHANGED <<trainVars, call>>

\* the rest of train_step and the assignment of its result in train
TrainStepReturn ==
  /\ pc = "scan"
  /\ ScanFinished(lanes[1], call.num_timesteps)
  /\ LET ret == TrainStepResult(call, [m \in 1..Len(lanes) |-> Returned(lanes[m])])
     IN /\ hist' = Append(hist, [call |-> call, ret |-> ret])
        /\ model' = ret.model
        /\ loss' = <<ret.opt_state>>
        /\ opt_state' = KeptOptState(opt_state, ret)
  /\ it' = it + 1
  /\ pc' = "loop"
  /\ lanes' = <<>>
  /\ UNCHANGED <<rng, args, call>>

\* the loop is over
TrainDone ==
  /\ pc = "loop"
  /\ it >= args.num_iters
  /\ pc' = "done"
  /\ UNCHANGED <<it, rng, model, opt_state, loss, hist, args, call, lanes>>

Init == TrainInit

Next == TrainCall \/ BatchStep \/ TrainStepReturn \/ TrainDone

Spec == Init /\ [][Next]_vars

-----------------------------------------------------------------------------
(* Properties of the trajectory simulator, under SimSpec *)

Lanes == 1..Len(lanes)

Min(a, b) == IF a <= b THEN a ELSE b

\* C1: NeuralFBSDE.__call__ starts the carry at step_index 0 and applies the
\* step exactly num_timesteps times; every transition raises step_index by
\* exactly 1 and keeps t0 and dt; the returned carry has step_index =
\* num_timesteps and the output sequence has num_timesteps entries, the k-th
\* being the k-th transition's.
C1_ScanFoldsStep ==
  \A m \in Lanes :
    LET l == lanes[m] IN
    l.stage # "entry" =>
      /\ Len(l.trace) = Len(l.ys) + 1
      /\ l.trace[1].i = 0
      /\ l.trace[1].t0 = call.t0 /\ l.trace[1].dt = call.dt
      /\ \A k \in 1..Len(l.ys) :
           /\ l.trace[k + 1].i = l.trace[k].i + 1
           /\ l.trace[k + 1].t0 = l.trace[k].t0
           /\ l.trace[k + 1].dt = l.trace[k].dt
           /\ l.ys[k].x = l.trace[k + 1].x
           /\ l.ys[k].y = l.trace[k + 1].y
      /\ Len(l.ys) <= call.num_timesteps
      /\ l.stage = "returned" =>
           /\ Len(l.ys) = call.num_timesteps
           /\ Last(l.trace).i = call.num_timesteps

C1_Witness ==
  \E m \in Lanes :
    /\ lanes[m].stage = "returned"
    /\ call.num_timesteps >= 2
    /\ Last(lanes[m].trace).i = call.num_timesteps

C5_InitialOracleAtT0 ==
  \A m \in Lanes :
    LET l == lanes[m] IN
    l.stage # "entry" =>
      /\ l.trace[1].x = call.x0
      /\ l.calls[1].x = call.x0
      /\ l.calls[1].t = call.t0
      /\ l.trace[1].y = u_and_dudx(model.unet, call.t0, call.x0).y
      /\ l.trace[1].z = u_and_dudx(model.unet, call.t0, call.x0).dudx

\* a configuration the simulator is to reject
ConfigError ==
  \/ call.dt <= 0
  \/ call.num_timesteps <= 0
  \/ Len(call.x0) = 0
  \/ model.noise_size # Len(call.x0)

\* C6: for a configuration error no single-step transition is ever executed
\* and no trajectory state or output is returned.
C6_ConfigErrorRejected ==
  ConfigError =>
    \A m \in Lanes : Len(lanes[m].ys) = 0 /\ lanes[m].stage # "returned"

\* the oracle calls of the transitions: the k-th transition calls the oracle
\* once, at t0 + k*dt and at the state it has just computed, and carries the
\* result on
StepOracleDiscipline ==
  \A m \in Lanes :
    LET l == lanes[m] IN
    l.stage # "entry" =>
      /\ Len(l.calls) = Len(l.trace)
      /\ \A k \in 2..Len(l.calls) :
           /\ l.calls[k].t = FAdd(call.t0, FMul(FInt(k - 1), call.dt))
           /\ l.calls[k].x = l.trace[k].x
           /\ l.calls[k].y = l.trace[k].y
           /\ l.calls[k].z = l.trace[k].z

\* C9: every transition calls the oracle exactly once, at t0 + (i+1)*dt and at
\* the updated state, the result is the Y, Z carried into the next transition,
\* and the time at which the carried Y, Z were evaluated always equals the
\* next transition's curr_t = t0 + i*dt.
C9_CarriedOracleTime ==
  /\ StepOracleDiscipline
  /\ \A m \in Lanes :
       LET l == lanes[m] IN
       l.stage # "entry" =>
         /\ Last(l.calls).y = Last(l.trace).y
         /\ Last(l.calls).z = Last(l.trace).z
         /\ Last(l.calls).t = StepCurrT(Last(l.trace))

-----------------------------------------------------------------------------
(* Properties of train_step and train, under Spec *)

\* C2: in one train_step no two Gaussian draws use the same key, neither two
\* steps of one trajectory nor any two steps of two batch members.
C2_NoKeyReuse ==
  \A a, b \in Lanes :
    \A i \in 1..Len(lanes[a].draws) :
      \A j \in 1..Len(lanes[b].draws) :
        (a # b \/ i # j) => lanes[a].draws[i] # lanes[b].draws[j]

\* the part of C2 within one trajectory
NoKeyReuseInTrajectory ==
  \A a \in Lanes :
    \A i, j \in 1..Len(lanes[a].draws) :
      i # j => lanes[a].draws[i] # lanes[a].draws[j]

\* the key batch member m's run starts from
MemberSeed(m) == lanes[m].trace[1].key

Single(m, seed) ==
  NeuralFBSDE(call.model.unet, call.model.noise_size, call.x0[m], call.t0,
              call.dt, call.num_timesteps, seed)

\* C4: the batched simulation of train_step runs its members with seeds of
\* their own (two members, two seeds s1 # s2) and is, member for member and
\* in input order, the single-trajectory simulation with the member's seed.
C4_BatchEqualsSingles ==
  (pc = "scan" /\ ScanFinished(lanes[1], call.num_timesteps)) =>
    \A a, b \in Lanes :
      /\ Returned(lanes[a]) = Single(a, MemberSeed(a))
      /\ a # b => MemberSeed(a) # MemberSeed(b)

\* what the batched simulation is: every member is the single run with the
\* one key train_step was given
BatchSharesKey ==
  (pc = "scan" /\ ScanFinished(lanes[1], call.num_timesteps)) =>
    \A a \in Lanes : Returned(lanes[a]) = Single(a, call.key)

\* C7: one call of train_step returns the parameters advanced by exactly one
\* optimizer update computed from the gradient of that call's loss, together
\* with the optimizer state advanced by exactly one update from the one it
\* was given; the simulation itself changes neither.
C7_OneUpdatePerStep ==
  /\ \A k \in 1..Len(hist) :
       LET h == hist[k]
           upd == OptUpdate(Grads(h.call.model, h.call), h.call.opt_state)
       IN /\ h.ret.loss = loss_fn(h.call.model, h.call)
          /\ h.ret.model = ApplyUpdates(h.call.model, upd.updates)
          /\ h.ret.opt_state = upd.opt_state
          /\ h.ret.opt_state.count = h.call.opt_state.count + 1
  /\ pc = "scan" => (model = call.model /\ opt_state = call.opt_state)

C7_Witness ==
  /\ Len(hist) >= 1
  /\ IsFinite(hist[1].ret.loss)
  /\ hist[1].ret.model # hist[1].call.model
  /\ hist[1].ret.opt_state.count = 1

\* C8: a train_step whose loss is non-finite is not treated as a normal step
\* whose updated parameters are carried into the next iteration.
C8_DivergenceSurfaced ==
  \A k \in 1..Len(hist) :
    ~IsFinite(hist[k].ret.loss) =>
      ~(pc = "scan" /\ it = k /\ call.model = hist[k].ret.model)

\* C10: from the second iteration on, the model and the optimizer state
\* passed to train_step are the ones the previous train_step returned, so the
\* optimizer state has advanced once per iteration, and every iteration's key
\* differs from every earlier one's.
C10_StateThreaded ==
  \A k \in 2..Len(hist) :
    /\ hist[k].call.model = hist[k - 1].ret.model
    /\ hist[k].call.opt_state = hist[k - 1].ret.opt_state
    /\ hist[k].ret.opt_state.count = k
    /\ \A j \in 1..(k - 1) : hist[j].call.key # hist[k].call.key

\* the parts of C10 about the model and the keys
ModelAndKeyThreaded ==
  \A k \in 2..Len(hist) :
    /\ hist[k].call.model = hist[k - 1].ret.model
    /\ \A j \in 1..(k - 1) : hist[j].call.key # hist[k].call.key

====
